---- MODULE Spec2Model ----
(***************************************************************************)
(* Request orchestration of the OpenMetadata tasks extension:              *)
(*   RateLimiter      (rateLimiter.ts: wait / release)                     *)
(*   OpenMetadataAPI  (openMetadataApi.ts: request, handleError,           *)
(*                     authenticate, cachedRequest and the public reads)   *)
(*                                                                         *)
(* Scheduling is the JavaScript event loop: one macrotask (a public call,  *)
(* a timer callback, a network completion) runs to its first suspension,   *)
(* then every continuation made runnable by it (the microtask queue,       *)
(* variable micro) runs, in FIFO order, before the next macrotask starts.  *)
(*                                                                         *)
(* openMetadataApi.ts declares getTasks, getAsset, getAssetLineage,        *)
(* searchAssets, getDataQualityTestResults, getIngestionBotToken,          *)
(* getAssetDetails and getTableDDL twice; the later declaration of a class *)
(* member replaces the earlier one in the emitted JavaScript, so the       *)
(* cachedRequest versions (lines 345-462) are the ones modelled.           *)
(***************************************************************************)
EXTENDS Integers, Sequences, FiniteSets, TLC

\* ------------------------------------------------------------------ bounds
\* new RateLimiter(maxConcurrent, interval): the constructor's parameters.
\* Time is counted in ticks; one tick is one limiter interval.
MaxConcurrent == 2
Interval == 1
\* CACHE_TTL in ticks.
CACHE_TTL == 2
\* Date.now() is observed up to MaxTime ticks.
MaxTime == CACHE_TTL + 1
\* Callers of the limiter-only specification: enough for two to queue.
NCallers == MaxConcurrent + 2
\* Number of concurrently outstanding public calls of the client specifications.
MaxCalls == 2
\* Pages api.getTasks returns to the tree provider between two refresh() calls.
MaxFetches == 2
\* The largest total a page reports.
MaxTotal == 5
\* Change events of the tree are counted up to MaxFired.
MaxFired == 2
\* Longest task list given to groupTasksByProject.
MaxGroupLen == 3

VARIABLES
    calls,        \* call slot -> the public call running in it (record, see Idle)
    rateLimiter,  \* [running, queue]: the fields of RateLimiter
    timers,       \* pending setTimeout(release) callbacks: remaining ticks -> count
    micro,        \* microtask queue: call slots with a runnable continuation
    token,        \* OpenMetadataAPI.token ("" when unset)
    cache,        \* OpenMetadataAPI.cache: key -> NoEntry or [data, timestamp]
    now,          \* Date.now(), in ticks
    secrets,      \* context.secrets['openmetadata-jwt-token'] ("" when absent)
    refresh,      \* TokenManager.refreshToken: where it stands, how it last ended
    taskCache,    \* TaskTreeDataProvider.taskCache: key -> tasks
    nextPageTokens, \* TaskTreeDataProvider.nextPageTokens: key -> cursor
    tree,         \* the getChildren call of the tree provider (record, see TreeIdle)
    received,     \* history: the pages api.getTasks has returned to the tree
                  \* provider since the last refresh(), oldest first
    fired,        \* _onDidChangeTreeData.fire() calls so far (counted to MaxFired)
    grouped,      \* groupTasksByProject(tasks): its argument and the Map returned
    parsed        \* parseResponse(response): its argument and what it returned

credVars == <<secrets, refresh>>
treeVars == <<taskCache, nextPageTokens, tree, received, fired, grouped>>
vars == <<calls, rateLimiter, timers, micro, token, cache, now, credVars, treeVars,
          parsed>>

\* ------------------------------------------------------------ plain values
\* A promise is pending, fulfilled with a value or rejected with a reason.
Pending == [state |-> "pending"]
Fulfilled(v) == [state |-> "fulfilled", value |-> v]
Rejected(e) == [state |-> "rejected", reason |-> e]

\* What axios throws: an AxiosError with a response (status), with a request
\* but no response (status 0), or with neither.
AxiosError(status, hasRequest) ==
    [axios |-> TRUE, response |-> status, request |-> hasRequest,
     message |-> "AxiosError", statusCode |-> 0]

\* new OpenMetadataAPIError(message, statusCode); statusCode 0 is undefined.
OpenMetadataAPIError(message, statusCode) ==
    [axios |-> FALSE, response |-> 0, request |-> FALSE,
     message |-> message, statusCode |-> statusCode]

\* A call slot with no call in it. Of a call: op and arg, what was called;
\* pc, where its request() stands ("wait_q" queued in the limiter, "wait_r"
\* woken, "wait_done" wait() has returned, "net" axios in flight, "end");
\* http, req and res, the promises of axios, of request() and of the public
\* operation; permits and sent, the permits taken and the axios calls
\* made for it; bearer, the token sent.
Idle ==
    [op |-> "none", arg |-> <<>>, pc |-> "idle", res |-> Pending, req |-> Pending,
     http |-> Pending, permits |-> 0, sent |-> 0, bearer |-> ""]

Slots == DOMAIN calls

\* ------------------------------------------------------------- RateLimiter
\* Mutant: the release callback is called at once instead of being scheduled.
SetTimeoutNow(t) == [t EXCEPT ![0] = @ + 1]

\* setTimeout(() => this.release(), this.interval)
SetTimeout(t) == [t EXCEPT ![Interval] = @ + 1]

TimerCount == LET Sum[r \in 0..(Interval + 1)] ==
                      IF r > Interval THEN 0 ELSE timers[r] + Sum[r + 1]
              IN Sum[0]

\* Mutant: the permit is taken but no release is scheduled.
TakePermitNoTimer(c) ==
    /\ rateLimiter' = [rateLimiter EXCEPT !.running = @ + 1]
    /\ UNCHANGED timers

\* wait(), lines 57-58: the permit is taken and its release timer is armed.
TakePermit(c) ==
    /\ rateLimiter' = [rateLimiter EXCEPT !.running = @ + 1]
    /\ timers' = SetTimeout(timers)

\* wait(), line 54-55: the limit is reached, the caller's resolve is queued.
Enqueue(c) ==
    /\ rateLimiter' = [rateLimiter EXCEPT !.queue = Append(@, c)]
    /\ UNCHANGED timers

\* Mutant: this.queue.pop(), the newest queued resolve.
QueuePop(q) == [next |-> <<q[Len(q)]>>, rest |-> SubSeq(q, 1, Len(q) - 1)]

\* this.queue.shift(): the oldest queued resolve and the queue without it.
QueueShift(q) == [next |-> <<Head(q)>>, rest |-> Tail(q)]

\* release(): one slot is freed and the oldest queued resolve, if any, is
\* taken off the queue.
ReleaseLimiter(l) ==
    [running |-> l.running - 1,
     queue |-> IF Len(l.queue) > 0 THEN QueueShift(l.queue).rest ELSE l.queue]

\* The resolve callbacks release() calls: `if (next) next()`.
Woken(l) == IF Len(l.queue) > 0 THEN QueueShift(l.queue).next ELSE <<>>

\* --------------------------------------------------------- OpenMetadataAPI
\* handleError(error): the OpenMetadataAPIError it throws.
handleError(error) ==
    IF error.axios
    THEN IF error.response # 0
         THEN OpenMetadataAPIError(
                  IF error.response = 401 THEN "ErrorStatus.CheckToken"
                  ELSE IF error.response = 404 THEN "ErrorStatus.NotFound"
                  ELSE "ErrorStatus",
                  error.response)
         ELSE IF error.request
              THEN OpenMetadataAPIError("NoResponseReceived", 0)
              ELSE OpenMetadataAPIError("UnknownErrorOccurred", 0)
    ELSE OpenMetadataAPIError("UnknownErrorOccurred", 0)

NotAuthenticated == OpenMetadataAPIError("NotAuthenticated", 0)

\* isAuthenticated(): !!this.token
isAuthenticated == token # ""

\* The cache key of a read: the operation's prefix, then its arguments joined
\* by "_". Keys and arguments are sequences of text fragments.
RECURSIVE JoinArgs(_)
JoinArgs(arg) ==
    IF Len(arg) = 0 THEN <<>>
    ELSE IF Len(arg) = 1 THEN arg[1]
    ELSE arg[1] \o <<"_">> \o JoinArgs(Tail(arg))

KeyPrefix(op) ==
    CASE op = "getTasks" -> <<"tasks", "_">>
      [] op = "getTaskDetails" -> <<"task", "_">>
      [] op = "getAsset" -> <<"asset", "_">>
      [] op = "getAssetLineage" -> <<"asset", "_", "lineage", "_">>
      [] op = "searchAssets" -> <<"search", "_">>
      [] op = "getDataQualityTestResults" -> <<"data", "_", "quality", "_">>
      [] op = "getIngestionBotToken" -> <<"ingestion", "_", "bot", "_", "token">>
      [] op = "getAssetDetails" -> <<"asset", "_", "details", "_">>

CacheKey(op, arg) == KeyPrefix(op) \o JoinArgs(arg)

\* Mutant: an entry exactly CACHE_TTL old still counts as fresh.
CacheHitInclusive(key) ==
    /\ key \in DOMAIN cache
    /\ now - cache[key].timestamp <= CACHE_TTL

\* cachedRequest, line 335-336: an entry exists and is younger than CACHE_TTL.
CacheHit(key) ==
    /\ key \in DOMAIN cache
    /\ now - cache[key].timestamp < CACHE_TTL

\* this.cache.set(key, { data, timestamp: Date.now() })
CacheSet(ch, key, data) ==
    [k \in DOMAIN ch \cup {key} |->
        IF k = key THEN [data |-> data, timestamp |-> now] ELSE ch[k]]

\* parseResponse applied to the promise request() returned (getTasks does not
\* await it): an envelope whose data is that promise, without paging.
EnvelopeOfPromise == <<"envelope", "promise">>
\* getAssetDetails applied to the promise getAsset() returned: no entityType,
\* so the default branch serialises the promise ("{}") with type Other.
DetailsOfPromise == <<"details", "{}", "other">>
\* task.entityLink || null of a fetched task.
EntityLink(data) == <<"entityLink">> \o data

\* Mutant: the limit test is `>` instead of `>=`.
StartRequestOffByOne(c, r) ==
    IF rateLimiter.running > MaxConcurrent
    THEN /\ Enqueue(c)
         /\ calls' = [calls EXCEPT ![c] = [r EXCEPT !.pc = "wait_q"]]
         /\ UNCHANGED micro
    ELSE /\ TakePermit(c)
         /\ calls' = [calls EXCEPT ![c] =
                         [r EXCEPT !.pc = "wait_done", !.permits = @ + 1]]
         /\ micro' = Append(micro, c)

\* request(), line 49: the synchronous part of `await this.rateLimiter.wait()`
\* for the call record r about to run in slot c.
StartRequest(c, r) ==
    IF rateLimiter.running >= MaxConcurrent
    THEN /\ Enqueue(c)
         /\ calls' = [calls EXCEPT ![c] = [r EXCEPT !.pc = "wait_q"]]
         /\ UNCHANGED micro
    ELSE /\ TakePermit(c)
         /\ calls' = [calls EXCEPT ![c] =
                         [r EXCEPT !.pc = "wait_done", !.permits = @ + 1]]
         /\ micro' = Append(micro, c)

NewCall(op, arg) == [Idle EXCEPT !.op = op, !.arg = arg]

\* A call that ends without a request: its promise settles with res.
Finish(c, r, res) ==
    /\ calls' = [calls EXCEPT ![c] = [r EXCEPT !.pc = "end", !.res = res]]
    /\ UNCHANGED <<rateLimiter, timers, micro>>

\* A macrotask starts only when the microtask queue is drained. A new call
\* takes the lowest free slot (slots are interchangeable).
CanStart(c) ==
    /\ micro = <<>>
    /\ calls[c].pc = "idle"
    /\ \A d \in Slots : d < c => calls[d].pc # "idle"

\* ----------------------------------------------------------------- actions
\* authenticate(jwtToken): axios.get is called directly, with the given token.
Authenticate(c, jwtToken) ==
    /\ CanStart(c)
    /\ calls' = [calls EXCEPT ![c] =
                    [NewCall("authenticate", <<jwtToken>>) EXCEPT
                        !.pc = "net", !.sent = 1, !.bearer = jwtToken]]
    /\ UNCHANGED <<rateLimiter, timers, micro, token, cache, now>>
    /\ UNCHANGED <<credVars, treeVars, parsed>>

\* Mutant: updateTask calls axios itself, like authenticate.
UpdateTaskDirect(c, taskId) ==
    /\ CanStart(c)
    /\ calls' = [calls EXCEPT ![c] =
                    [NewCall("updateTask", <<taskId>>) EXCEPT
                        !.pc = "net", !.sent = 1, !.bearer = token]]
    /\ UNCHANGED <<rateLimiter, timers, micro, token, cache, now>>
    /\ UNCHANGED <<credVars, treeVars, parsed>>

\* Mutant: updateTask goes through cachedRequest under the task's key.
UpdateTaskCached(c, taskId) ==
    /\ CanStart(c)
    /\ LET key == CacheKey("getTaskDetails", <<taskId>>)
           r == NewCall("updateTask", <<taskId>>)
       IN IF CacheHit(key)
          THEN Finish(c, r, Fulfilled(cache[key].data))
          ELSE StartRequest(c, r)
    /\ UNCHANGED <<token, cache, now>>
    /\ UNCHANGED <<credVars, treeVars, parsed>>

\* updateTask(taskId, updateData): return this.request('PATCH', ...)
UpdateTask(c, taskId) ==
    /\ CanStart(c)
    /\ StartRequest(c, NewCall("updateTask", <<taskId>>))
    /\ UNCHANGED <<token, cache, now>>
    /\ UNCHANGED <<credVars, treeVars, parsed>>

\* getTaskParentAsset(taskId): try { await this.request('GET', ...) }
GetTaskParentAsset(c, taskId) ==
    /\ CanStart(c)
    /\ StartRequest(c, NewCall("getTaskParentAsset", <<taskId>>))
    /\ UNCHANGED <<token, cache, now>>
    /\ UNCHANGED <<credVars, treeVars, parsed>>

\* The reads whose producer is `() => this.request('GET', endpoint)`.
PlainReads ==
    {"getTaskDetails", "getAsset", "getAssetLineage", "searchAssets",
     "getDataQualityTestResults"}

\* Mutant: the request is started before the cache is looked at.
CachedReadLimiterFirst(c, op, arg) ==
    /\ CanStart(c)
    /\ op \in PlainReads
    /\ LET key == CacheKey(op, arg)
           r == NewCall(op, arg)
       IN IF CacheHit(key)
          THEN StartRequest(c, [r EXCEPT !.res = Fulfilled(cache[key].data)])
          ELSE StartRequest(c, r)
    /\ UNCHANGED <<token, cache, now>>
    /\ UNCHANGED <<credVars, treeVars, parsed>>

\* Mutant: a miss joins a fetch of the same key that is already under way.
CachedReadSingleFlight(c, op, arg) ==
    /\ CanStart(c)
    /\ op \in PlainReads
    /\ LET key == CacheKey(op, arg)
           r == NewCall(op, arg)
       IN IF CacheHit(key)
          THEN Finish(c, r, Fulfilled(cache[key].data))
          ELSE IF \E d \in Slots : /\ calls[d].op = op /\ calls[d].arg = arg
                                    /\ calls[d].pc \notin {"idle", "end"}
          THEN Finish(c, r, Fulfilled(<<"joined">>))
          ELSE StartRequest(c, r)
    /\ UNCHANGED <<token, cache, now>>
    /\ UNCHANGED <<credVars, treeVars, parsed>>

\* getTaskDetails / getAsset / getAssetLineage / searchAssets /
\* getDataQualityTestResults: cachedRequest(key, () => this.request(...)).
CachedRead(c, op, arg) ==
    /\ CanStart(c)
    /\ op \in PlainReads
    /\ LET key == CacheKey(op, arg)
           r == NewCall(op, arg)
       IN IF CacheHit(key)
          THEN Finish(c, r, Fulfilled(cache[key].data))
          ELSE StartRequest(c, r)
    /\ UNCHANGED <<token, cache, now>>
    /\ UNCHANGED <<credVars, treeVars, parsed>>

\* Mutant: the producer of getTasks does not test isAuthenticated().
GetTasksNoAuthCheck(c, limit, after) ==
    /\ CanStart(c)
    /\ LET arg == <<limit, after>>
           key == CacheKey("getTasks", arg)
           r == NewCall("getTasks", arg)
       IN IF CacheHit(key)
          THEN Finish(c, r, Fulfilled(cache[key].data)) /\ UNCHANGED cache
          ELSE /\ StartRequest(c, [r EXCEPT !.res = Fulfilled(EnvelopeOfPromise)])
               /\ cache' = CacheSet(cache, key, EnvelopeOfPromise)
    /\ UNCHANGED <<token, now>>
    /\ UNCHANGED <<credVars, treeVars, parsed>>

\* getTasks(limit, after): the producer throws when not authenticated; else
\* it calls request() without awaiting it and returns parseResponse(promise),
\* which cachedRequest stores and returns.
GetTasks(c, limit, after) ==
    /\ CanStart(c)
    /\ LET arg == <<limit, after>>
           key == CacheKey("getTasks", arg)
           r == NewCall("getTasks", arg)
       IN IF CacheHit(key)
          THEN Finish(c, r, Fulfilled(cache[key].data)) /\ UNCHANGED cache
          ELSE IF ~isAuthenticated
          THEN Finish(c, r, Rejected(NotAuthenticated)) /\ UNCHANGED cache
          ELSE /\ StartRequest(c, [r EXCEPT !.res = Fulfilled(EnvelopeOfPromise)])
               /\ cache' = CacheSet(cache, key, EnvelopeOfPromise)
    /\ UNCHANGED <<token, now>>
    /\ UNCHANGED <<credVars, treeVars, parsed>>

\* Mutant: getIngestionBotToken tests isAuthenticated() after request().
GetIngestionBotTokenLateCheck(c) ==
    /\ CanStart(c)
    /\ LET key == CacheKey("getIngestionBotToken", <<>>)
           r == NewCall("getIngestionBotToken", <<>>)
       IN IF CacheHit(key)
          THEN Finish(c, r, Fulfilled(cache[key].data))
          ELSE StartRequest(c, [r EXCEPT !.res =
                   IF ~isAuthenticated THEN Rejected(NotAuthenticated)
                   ELSE Rejected(handleError(
                            OpenMetadataAPIError("InvalidBotTokenFormat", 0)))])
    /\ UNCHANGED <<token, cache, now>>
    /\ UNCHANGED <<credVars, treeVars, parsed>>

\* getIngestionBotToken(): the producer throws when not authenticated; else it
\* calls request() without awaiting it, finds no botToken on the promise,
\* throws 'Invalid response format' inside its try and rethrows through
\* handleError.
GetIngestionBotToken(c) ==
    /\ CanStart(c)
    /\ LET key == CacheKey("getIngestionBotToken", <<>>)
           r == NewCall("getIngestionBotToken", <<>>)
       IN IF CacheHit(key)
          THEN Finish(c, r, Fulfilled(cache[key].data))
          ELSE IF ~isAuthenticated
          THEN Finish(c, r, Rejected(NotAuthenticated))
          ELSE StartRequest(c, [r EXCEPT !.res =
                   Rejected(handleError(
                       OpenMetadataAPIError("InvalidBotTokenFormat", 0)))])
    /\ UNCHANGED <<token, cache, now>>
    /\ UNCHANGED <<credVars, treeVars, parsed>>

\* getAssetDetails(assetId): the producer calls getAsset(assetId) without
\* awaiting it (getAsset runs its own cachedRequest) and returns the details
\* of the promise, which cachedRequest stores and returns.
GetAssetDetails(c, assetId) ==
    /\ CanStart(c)
    /\ LET arg == <<assetId>>
           key == CacheKey("getAssetDetails", arg)
           r == NewCall("getAssetDetails", arg)
           done == [r EXCEPT !.res = Fulfilled(DetailsOfPromise)]
       IN IF CacheHit(key)
          THEN Finish(c, r, Fulfilled(cache[key].data)) /\ UNCHANGED cache
          ELSE /\ IF CacheHit(CacheKey("getAsset", arg))
                  THEN Finish(c, done, done.res)
                  ELSE StartRequest(c, done)
               /\ cache' = CacheSet(cache, key, DetailsOfPromise)
    /\ UNCHANGED <<token, now>>
    /\ UNCHANGED <<credVars, treeVars, parsed>>

\* The continuation at the head of the microtask queue runs.
RunMicrotask ==
    /\ micro # <<>>
    /\ LET c == Head(micro)
       IN IF calls[c].pc = "wait_r"
          THEN \* wait(), lines 57-58, then wait() returns to request()
               /\ TakePermit(c)
               /\ calls' = [calls EXCEPT ![c].pc = "wait_done",
                                         ![c].permits = @ + 1]
               /\ micro' = Append(Tail(micro), c)
          ELSE \* request(), line 51: axios is called with the current token
               /\ calls' = [calls EXCEPT ![c].pc = "net", ![c].sent = @ + 1,
                                         ![c].bearer = token]
               /\ micro' = Tail(micro)
               /\ UNCHANGED <<rateLimiter, timers>>
    /\ UNCHANGED <<token, cache, now>>
    /\ UNCHANGED <<credVars, treeVars, parsed>>

\* A release timer fires: release().
Timeout ==
    /\ micro = <<>>
    /\ timers[0] > 0
    /\ timers' = [timers EXCEPT ![0] = @ - 1]
    /\ rateLimiter' = ReleaseLimiter(rateLimiter)
    /\ micro' = Woken(rateLimiter)
    /\ calls' = [c \in Slots |->
                    IF Woken(rateLimiter) = <<c>>
                    THEN [calls[c] EXCEPT !.pc = "wait_r"]
                    ELSE calls[c]]
    /\ UNCHANGED <<token, cache, now>>
    /\ UNCHANGED <<credVars, treeVars, parsed>>

\* One tick passes for the pending timers; a due timer fires first.
TimersTick ==
    /\ micro = <<>>
    /\ timers[0] = 0
    /\ timers' = [r \in 0..Interval |-> IF r = Interval THEN 0 ELSE timers[r + 1]]

\* One tick passes.
Tick ==
    /\ now < MaxTime
    /\ TimersTick
    /\ now' = now + 1
    /\ UNCHANGED <<calls, rateLimiter, micro, token, cache>>
    /\ UNCHANGED <<credVars, treeVars, parsed>>

\* What the network does with one axios call.
Payloads == {<<"p1">>, <<"p2">>}
Statuses == {401, 404, 500}
Outcomes ==
    {[ok |-> TRUE, data |-> p, error |-> AxiosError(0, FALSE)] : p \in Payloads}
    \cup {[ok |-> FALSE, data |-> <<>>, error |-> AxiosError(s, TRUE)] : s \in Statuses}
    \cup {[ok |-> FALSE, data |-> <<>>, error |-> AxiosError(0, TRUE)],
          [ok |-> FALSE, data |-> <<>>, error |-> AxiosError(0, FALSE)]}

\* The promise axios returned.
AxiosSettled(out) == IF out.ok THEN Fulfilled(out.data) ELSE Rejected(out.error)

\* request(), lines 60-63: the axios promise settles; request() returns the
\* response data or throws through handleError.
RequestSettled(out) ==
    IF out.ok THEN Fulfilled(out.data) ELSE Rejected(handleError(out.error))

\* The promise of the public operation once its own request() has settled
\* with req (cur is its state before).
OperationSettled(op, req, cur) ==
    IF op = "updateTask" \/ op \in PlainReads
    THEN req
    ELSE IF op = "getTaskParentAsset"
    THEN IF req.state = "fulfilled"
         THEN Fulfilled(EntityLink(req.value))
         ELSE Rejected(handleError(req.reason))
    ELSE cur

\* Mutant: a failed authenticate forgets the token held.
AuthenticatedTokenClearOnFailure(held, jwtToken, out) ==
    IF out.ok THEN jwtToken ELSE ""

\* authenticate, lines 129-136: this.token = jwtToken on a 2xx answer only; the
\* catch rethrows through handleError and assigns nothing.
AuthenticatedToken(held, jwtToken, out) ==
    IF out.ok THEN jwtToken ELSE held

\* Mutant: a successful authenticate empties the response cache.
AuthenticatedCacheCleared(ch, out) ==
    IF out.ok THEN [k \in {} |-> k] ELSE ch

\* authenticate, lines 122-137, does not touch this.cache.
AuthenticatedCache(ch, out) == ch

\* Mutant: cachedRequest stores what the producer ended with, also a failure.
ProducedCacheAlways(ch, r, out) ==
    IF r.op \in PlainReads
    THEN CacheSet(ch, CacheKey(r.op, r.arg), out.data)
    ELSE IF out.ok /\ r.op = "getAssetDetails"
    THEN CacheSet(ch, CacheKey("getAsset", r.arg), out.data)
    ELSE ch

\* cachedRequest, lines 340-341, once request() has settled with out: `await
\* requestFn()` throws on a rejection, so cache.set runs on success only. The
\* request getAssetDetails started belongs to getAsset's cachedRequest.
ProducedCache(ch, r, out) ==
    IF out.ok /\ r.op \in PlainReads
    THEN CacheSet(ch, CacheKey(r.op, r.arg), out.data)
    ELSE IF out.ok /\ r.op = "getAssetDetails"
    THEN CacheSet(ch, CacheKey("getAsset", r.arg), out.data)
    ELSE ch

\* The network call of slot c completes with outcome out; the continuations
\* of the call run to their end.
Respond(c, out) ==
    /\ micro = <<>>
    /\ calls[c].pc = "net"
    /\ LET r == calls[c]
       IN IF r.op = "authenticate"
          THEN \* authenticate, lines 129-136
               /\ calls' = [calls EXCEPT ![c].pc = "end",
                               ![c].http = AxiosSettled(out),
                               ![c].res = IF out.ok THEN Fulfilled(<<"true">>)
                                          ELSE Rejected(handleError(out.error))]
               /\ token' = AuthenticatedToken(token, r.arg[1], out)
               /\ cache' = AuthenticatedCache(cache, out)
          ELSE LET req == RequestSettled(out)
               IN /\ calls' = [calls EXCEPT ![c].pc = "end", ![c].req = req,
                                  ![c].http = AxiosSettled(out),
                                  ![c].res = OperationSettled(r.op, req, r.res)]
                  /\ cache' = ProducedCache(cache, r, out)
                  /\ UNCHANGED token
    /\ UNCHANGED <<rateLimiter, timers, micro, now>>
    /\ UNCHANGED <<credVars, treeVars, parsed>>

\* The caller has consumed the settled promise; the slot is free again.
Return(c) ==
    /\ micro = <<>>
    /\ calls[c].pc = "end"
    /\ calls' = [calls EXCEPT ![c] = Idle]
    /\ UNCHANGED <<rateLimiter, timers, micro, token, cache, now>>
    /\ UNCHANGED <<credVars, treeVars, parsed>>

\* ------------------------------------------------------------ TokenManager
\* encryptToken / decryptToken: placeholders that return their argument.
encryptToken(t) == t
decryptToken(t) == t

\* getToken(): the decrypted secret, or "" (undefined) when none is stored.
getToken == IF secrets # "" THEN decryptToken(secrets) ELSE ""

\* refreshToken() is not running; out is how its last run ended ("skipped":
\* it found no stored token) and message what that run showed the user.
RefreshIdle ==
    [pc |-> "idle", token |-> "", out |-> [kind |-> "none", token |-> ""],
     message |-> "none"]

\* api.refreshToken(token) settles: with a new token, with no token (the
\* token has expired) or by throwing (transport error).
RefreshOutcomes ==
    {[kind |-> "token", token |-> t] : t \in {"jwt1", "jwt2"}}
    \cup {[kind |-> "expired", token |-> ""], [kind |-> "error", token |-> ""]}

\* Mutant: the catch branch clears the stored token.
RefreshedSecretClearOnError(stored, out) ==
    IF out.kind = "token" THEN encryptToken(out.token) ELSE ""

\* refreshToken(), lines 46-56: the secret after api.refreshToken has settled
\* with out: setToken(newToken), clearToken(), or nothing in the catch.
RefreshedSecret(stored, out) ==
    IF out.kind = "token" THEN encryptToken(out.token)
    ELSE IF out.kind = "expired" THEN ""
    ELSE stored

\* Mutant: the catch branch shows nothing.
RefreshMessageSilentOnError(out) ==
    IF out.kind = "token" THEN "information"
    ELSE IF out.kind = "expired" THEN "warning"
    ELSE "none"

\* refreshToken(), lines 49, 52 and 55: showInformationMessage('... refreshed
\* successfully.'), showWarningMessage('... expired. Please authenticate
\* again.') or showErrorMessage('Failed to refresh ...').
RefreshMessage(out) ==
    IF out.kind = "token" THEN "information"
    ELSE IF out.kind = "expired" THEN "warning"
    ELSE "error"

\* The data of every bucket is gone: taskCache.clear(), nextPageTokens.clear().
NoBuckets == [k \in {} |-> k]

\* Mutant: the change event is not fired.
FireNever(n) == n

\* this._onDidChangeTreeData.fire(): one more event.
Fire(n) == IF n < MaxFired THEN n + 1 ELSE n

\* Mutant: the command stores the token whatever authenticate answered.
AuthenticateCommandStoreAlways(c) ==
    /\ micro = <<>>
    /\ calls[c].pc = "end"
    /\ calls[c].op = "authenticate"
    /\ secrets' = encryptToken(calls[c].arg[1])
    /\ taskCache' = NoBuckets /\ nextPageTokens' = NoBuckets /\ received' = <<>>
    /\ fired' = Fire(fired)
    /\ calls' = [calls EXCEPT ![c] = Idle]
    /\ UNCHANGED <<rateLimiter, timers, micro, token, cache, now, refresh, tree,
                   grouped, parsed>>

\* The 'openmetadata-tasks.authenticate' command after `await
\* openMetadataApi.authenticate(token)`: on true the token is stored in the
\* secret storage and the tree is refreshed; a rejection is shown as a message.
AuthenticateCommand(c) ==
    /\ micro = <<>>
    /\ calls[c].pc = "end"
    /\ calls[c].op = "authenticate"
    /\ IF calls[c].res.state = "fulfilled"
       THEN /\ secrets' = encryptToken(calls[c].arg[1])
            /\ taskCache' = NoBuckets /\ nextPageTokens' = NoBuckets
            /\ received' = <<>>
            /\ fired' = Fire(fired)
       ELSE UNCHANGED <<secrets, taskCache, nextPageTokens, received, fired>>
    /\ calls' = [calls EXCEPT ![c] = Idle]
    /\ UNCHANGED <<rateLimiter, timers, micro, token, cache, now, refresh, tree,
                   grouped, parsed>>

\* Mutant: api.refreshToken is called whether a token is stored or not.
RefreshTokenStartAlways ==
    /\ micro = <<>>
    /\ refresh.pc = "idle"
    /\ refresh' = [RefreshIdle EXCEPT !.pc = "calling", !.token = getToken]
    /\ UNCHANGED <<calls, rateLimiter, timers, micro, token, cache, now, secrets,
                   treeVars, parsed>>

\* The refresh interval fires: refreshToken() reads the stored token and, when
\* there is one, calls api.refreshToken(token); with none the run ends there.
RefreshTokenStart ==
    /\ micro = <<>>
    /\ refresh.pc = "idle"
    /\ refresh' = IF getToken # ""
                  THEN [RefreshIdle EXCEPT !.pc = "calling", !.token = getToken]
                  ELSE [RefreshIdle EXCEPT !.out.kind = "skipped"]
    /\ UNCHANGED <<calls, rateLimiter, timers, micro, token, cache, now, secrets,
                   treeVars, parsed>>

\* api.refreshToken settles with out and refreshToken() runs to its end.
RefreshTokenSettled(out) ==
    /\ micro = <<>>
    /\ refresh.pc = "calling"
    /\ secrets' = RefreshedSecret(secrets, out)
    /\ refresh' = [pc |-> "idle", token |-> refresh.token, out |-> out,
                   message |-> RefreshMessage(out)]
    /\ UNCHANGED <<calls, rateLimiter, timers, micro, token, cache, now, treeVars, parsed>>

\* A caller other than the authenticate command has consumed its promise.
ReturnCall(c) ==
    /\ calls[c].op # "authenticate"
    /\ Return(c)

\* ---------------------------------------------------- TaskTreeDataProvider
\* The provider is constructed with an OpenMetadataAPI (the client above, or
\* MockOpenMetadataAPI in development); of it the provider uses getTasks only,
\* whose answer is an ApiResponse<Task[]> or a rejection.

\* Tasks, as far as the provider reads them: id, project?.name ("" when the
\* task has no project) and status.
T1 == [id |-> "t1", project |-> "p1", status |-> "Open"]
T2 == [id |-> "t2", project |-> "p1", status |-> "Closed"]
T3 == [id |-> "t3", project |-> "", status |-> "Open"]
Tasks == {T1, T2, T3}

\* response.data of a page.
PageData ==
    {<<>>} \cup {<<t>> : t \in Tasks}
    \cup {p \in Tasks \X Tasks : p[1] # p[2]}

\* response.paging: absent, or total (0 also for undefined) and after ("" for
\* undefined).
NoPaging == [present |-> FALSE, total |-> 0, after |-> ""]
Pagings ==
    {NoPaging}
    \cup {[present |-> TRUE, total |-> n, after |-> a] :
             n \in {0, MaxTotal}, a \in {"", "c1"}}

\* What `await this.api.getTasks(...)` gives: a page, or a rejection.
TreeResponses ==
    {[ok |-> TRUE, data |-> d, paging |-> pg] : d \in PageData, pg \in Pagings}
    \cup {[ok |-> FALSE, data |-> <<>>, paging |-> NoPaging]}
NoResponse == [ok |-> FALSE, data |-> <<>>, paging |-> NoPaging]

\* new TaskTreeItem(label, taskId, entityId, entityLink, collapsibleState,
\* contextValue, description): label, taskId, contextValue and
\* `description || this.taskId` (descriptions are sequences of fragments).
TaskTreeItem(label, taskId, contextValue, description) ==
    [label |-> label, taskId |-> taskId, contextValue |-> contextValue,
     description |-> IF description = <<>> THEN <<taskId>> ELSE description]

\* getChildren(undefined): the root.
Undefined == [label |-> "", taskId |-> "", contextValue |-> "undefined",
              description |-> <<>>]

\* No getChildren call is running. Of a call: element, its argument; pc
\* ("fetch" while api.getTasks is awaited, "done" once it has returned);
\* fetches, the getTasks calls it made, with args and resp, the arguments and
\* answer of the last; settled and result, the state of the promise it
\* returned and the items it resolved to; logged, whether the call went
\* through ErrorHandler.handle (Logger.log and showErrorMessage).
TreeIdle ==
    [pc |-> "idle", element |-> Undefined, fetches |-> 0, args |-> <<>>,
     resp |-> NoResponse, settled |-> "pending", result |-> <<>>,
     logged |-> FALSE]

\* Mutant: no catch, the rejection of api.getTasks goes to the caller.
ErrorPropagated(call, response) ==
    [call EXCEPT !.pc = "done", !.resp = response, !.settled = "rejected"]

\* getRootItems, lines 123-126, and loadMoreTasks, lines 229-232:
\* catch (error) { ErrorHandler.handle(error, ...); return []; }
ErrorHandled(call, response) ==
    [call EXCEPT !.pc = "done", !.resp = response, !.settled = "fulfilled",
                 !.result = <<>>, !.logged = TRUE]

\* this.taskCache.get(key) || []
Bucket(key) == IF key \in DOMAIN taskCache THEN taskCache[key] ELSE <<>>

\* task.project?.name || 'Ungrouped'
ProjectKey(task) == IF task.project = "" THEN "Ungrouped" ELSE task.project

\* groupTasksByProject: the keys of the Map, in insertion order.
RECURSIVE ProjectKeys(_)
ProjectKeys(tasks) ==
    IF tasks = <<>> THEN <<>>
    ELSE LET rest == ProjectKeys(SubSeq(tasks, 1, Len(tasks) - 1))
             k == ProjectKey(tasks[Len(tasks)])
         IN IF \E i \in 1..Len(rest) : rest[i] = k THEN rest ELSE Append(rest, k)

\* groupedTasks.get(projectName).filter(task => task.status === status)
ProjectTasks(tasks, projectName, status) ==
    SelectSeq(tasks, LAMBDA t : ProjectKey(t) = projectName /\ t.status = status)

\* createTreeItems, lines 157-170 and 175-188: one project item per key with a
\* task in the status, labelled with the count.
RECURSIVE ProjectItems(_, _, _, _)
ProjectItems(tasks, keys, status, word) ==
    IF keys = <<>> THEN <<>>
    ELSE LET n == Len(ProjectTasks(tasks, Head(keys), status))
             rest == ProjectItems(tasks, Tail(keys), status, word)
         IN IF n > 0
            THEN <<TaskTreeItem(Head(keys), Head(keys), "project", <<n, word>>)>>
                 \o rest
            ELSE rest

LoadMoreItem(key) == TaskTreeItem("Load More...", key, "loadMore", <<>>)

\* createTreeItems(key)
createTreeItems(tc, npt, key) ==
    LET tasks == IF key \in DOMAIN tc THEN tc[key] ELSE <<>>
        keys == ProjectKeys(tasks)
    IN <<TaskTreeItem("Open Tasks", "open-tasks", "category", <<>>)>>
       \o ProjectItems(tasks, keys, "Open", "open")
       \o <<TaskTreeItem("Completed Tasks", "completed-tasks", "category", <<>>)>>
       \o ProjectItems(tasks, keys, "Closed", "completed")
       \o (IF key \in DOMAIN npt THEN <<LoadMoreItem(key)>> ELSE <<>>)

\* getTasksForProject(projectName): a leaf per task of the project in
\* taskCache.get('root').
RECURSIVE TaskItems(_)
TaskItems(tasks) ==
    IF tasks = <<>> THEN <<>>
    ELSE <<TaskTreeItem(Head(tasks).id, Head(tasks).id,
                        IF Head(tasks).status = "Closed" THEN "completedTask"
                        ELSE "openTask", <<>>)>>
         \o TaskItems(Tail(tasks))

getTasksForProject(projectName) ==
    TaskItems(SelectSeq(Bucket("root"), LAMBDA t : ProjectKey(t) = projectName))

\* Mutant: the count shown is the number of tasks of the page.
RootItemsLocalCount(response) ==
    <<TaskTreeItem("All Tasks", "all-tasks", "category",
                   <<Len(response.data), "tasks">>),
      TaskTreeItem("Open Tasks", "open-tasks", "category", <<>>),
      TaskTreeItem("Completed Tasks", "completed-tasks", "category", <<>>)>>

\* getRootItems, lines 117-122: `response.paging?.total || 0` and the three
\* category items.
RootItems(response) ==
    <<TaskTreeItem("All Tasks", "all-tasks", "category",
                   <<IF response.paging.present THEN response.paging.total ELSE 0,
                     "tasks">>),
      TaskTreeItem("Open Tasks", "open-tasks", "category", <<>>),
      TaskTreeItem("Completed Tasks", "completed-tasks", "category", <<>>)>>

\* cacheTasksAndUpdateNextPageToken(key, response): the bucket and the cursor.
CachedTasks(tc, key, response) ==
    [k \in DOMAIN tc \cup {key} |->
        IF k = key
        THEN (IF key \in DOMAIN tc THEN tc[key] ELSE <<>>) \o response.data
        ELSE tc[k]]
UpdatedNextPageToken(npt, key, response) ==
    IF response.paging.present /\ response.paging.after # ""
    THEN [k \in DOMAIN npt \cup {key} |->
             IF k = key THEN response.paging.after ELSE npt[k]]
    ELSE [k \in DOMAIN npt \ {key} |-> npt[k]]

\* The elements getChildren is called with: the root, the category items of
\* getRootItems, project items and the 'Load More...' item of createTreeItems.
TreeElements ==
    {Undefined, LoadMoreItem("root")}
    \cup UNION {{RootItems(r)[i] : i \in 1..3} : r \in TreeResponses}
    \cup {TaskTreeItem(p, p, "project", <<1, w>>) :
             p \in {"p1", "Ungrouped"}, w \in {"open", "completed"}}

\* getChildren(element) up to its first await or its return.
GetChildren(element) ==
    /\ tree.pc = "idle"
    /\ element = Undefined => Len(received) < MaxFetches
    /\ tree' =
          IF element = Undefined
          THEN \* getRootItems: await this.api.getTasks(1)
               [TreeIdle EXCEPT !.pc = "fetch", !.fetches = 1, !.args = <<1, "">>]
          ELSE IF element.contextValue = "project"
          THEN [TreeIdle EXCEPT !.pc = "done", !.element = element,
                                !.settled = "fulfilled",
                                !.result = getTasksForProject(element.taskId)]
          ELSE IF element.contextValue = "loadMore"
                  /\ element.taskId \in DOMAIN nextPageTokens
          THEN \* loadMoreTasks: await this.api.getTasks(20, nextPageToken)
               [TreeIdle EXCEPT !.pc = "fetch", !.element = element,
                                !.fetches = 1,
                                !.args = <<20, nextPageTokens[element.taskId]>>]
          ELSE [TreeIdle EXCEPT !.pc = "done", !.element = element,
                                !.settled = "fulfilled"]
    /\ UNCHANGED <<taskCache, nextPageTokens, received, fired, grouped>>
    /\ UNCHANGED <<calls, rateLimiter, timers, micro, token, cache, now, credVars, parsed>>

\* Mutant: the root request stores its page and cursor under 'root'.
GetTasksSettledRootCached(response) ==
    /\ tree.pc = "fetch"
    /\ received' = IF response.ok THEN Append(received, response.data) ELSE received
    /\ UNCHANGED <<fired, grouped>>
    /\ LET key == IF tree.element = Undefined THEN "root" ELSE tree.element.taskId
           tc == CachedTasks(taskCache, key, response)
           npt == UpdatedNextPageToken(nextPageTokens, key, response)
       IN IF response.ok
          THEN /\ taskCache' = tc
               /\ nextPageTokens' = npt
               /\ tree' = [tree EXCEPT !.pc = "done", !.resp = response,
                              !.settled = "fulfilled",
                              !.result = IF tree.element = Undefined
                                         THEN RootItems(response)
                                         ELSE createTreeItems(tc, npt, key)]
          ELSE /\ tree' = ErrorHandled(tree, response)
               /\ UNCHANGED <<taskCache, nextPageTokens>>
    /\ UNCHANGED <<calls, rateLimiter, timers, micro, token, cache, now, credVars, parsed>>

\* api.getTasks settles with response and the call runs to its return.
GetTasksSettled(response) ==
    /\ tree.pc = "fetch"
    /\ received' = IF response.ok THEN Append(received, response.data) ELSE received
    /\ UNCHANGED <<fired, grouped>>
    /\ IF tree.element = Undefined
       THEN \* getRootItems, lines 117-126
            /\ tree' = IF response.ok
                       THEN [tree EXCEPT !.pc = "done", !.resp = response,
                                         !.settled = "fulfilled",
                                         !.result = RootItems(response)]
                       ELSE ErrorHandled(tree, response)
            /\ UNCHANGED <<taskCache, nextPageTokens>>
       ELSE \* loadMoreTasks, lines 225-232
            LET key == tree.element.taskId
                tc == CachedTasks(taskCache, key, response)
                npt == UpdatedNextPageToken(nextPageTokens, key, response)
            IN IF response.ok
               THEN /\ taskCache' = tc
                    /\ nextPageTokens' = npt
                    /\ tree' = [tree EXCEPT !.pc = "done", !.resp = response,
                                   !.settled = "fulfilled",
                                   !.result = createTreeItems(tc, npt, key)]
               ELSE /\ tree' = ErrorHandled(tree, response)
                    /\ UNCHANGED <<taskCache, nextPageTokens>>
    /\ UNCHANGED <<calls, rateLimiter, timers, micro, token, cache, now, credVars, parsed>>

\* Mutant: refresh() also empties the client's response cache.
TreeRefreshClearsCache ==
    /\ taskCache' = NoBuckets
    /\ nextPageTokens' = NoBuckets
    /\ received' = <<>>
    /\ fired' = Fire(fired)
    /\ cache' = [k \in {} |-> k]
    /\ UNCHANGED <<tree, grouped, calls, rateLimiter, timers, micro, token, now,
                   credVars, parsed>>

\* refresh()
TreeRefresh ==
    /\ taskCache' = NoBuckets
    /\ nextPageTokens' = NoBuckets
    /\ received' = <<>>
    /\ fired' = Fire(fired)
    /\ UNCHANGED <<tree, grouped, calls, rateLimiter, timers, micro, token, cache, now,
                   credVars, parsed>>

\* The view has taken the items getChildren returned.
TreeReturn ==
    /\ tree.pc = "done"
    /\ tree' = TreeIdle
    /\ UNCHANGED <<taskCache, nextPageTokens, received, fired, grouped>>
    /\ UNCHANGED <<calls, rateLimiter, timers, micro, token, cache, now, credVars, parsed>>

\* groupTasksByProject has not been applied.
NotGrouped == [pc |-> "idle", tasks |-> <<>>, groups |-> <<>>]

\* A task of a project whose name sorts before "p1".
T4 == [id |-> "t4", project |-> "a1", status |-> "Open"]

\* Mutant: a project seen for the first time is put in front of the others.
GroupInsertFront(groups, task) ==
    IF \E i \in 1..Len(groups) : groups[i].name = ProjectKey(task)
    THEN [i \in 1..Len(groups) |->
             IF groups[i].name = ProjectKey(task)
             THEN [groups[i] EXCEPT !.tasks = Append(@, task)]
             ELSE groups[i]]
    ELSE <<[name |-> ProjectKey(task), tasks |-> <<task>>]>> \o groups

\* groupTasksByProject, lines 243-247, for one task: a Map keeps its keys in
\* insertion order, so a new project goes last; the task is pushed to the
\* end of its project's array.
GroupInsert(groups, task) ==
    IF \E i \in 1..Len(groups) : groups[i].name = ProjectKey(task)
    THEN [i \in 1..Len(groups) |->
             IF groups[i].name = ProjectKey(task)
             THEN [groups[i] EXCEPT !.tasks = Append(@, task)]
             ELSE groups[i]]
    ELSE Append(groups, [name |-> ProjectKey(task), tasks |-> <<task>>])

\* tasks.forEach(...) from the empty Map.
RECURSIVE GroupFrom(_, _)
GroupFrom(groups, tasks) ==
    IF tasks = <<>> THEN groups
    ELSE GroupFrom(GroupInsert(groups, Head(tasks)), Tail(tasks))

groupTasksByProject(tasks) == GroupFrom(<<>>, tasks)

\* The task lists groupTasksByProject is applied to.
RECURSIVE TaskLists(_)
TaskLists(n) ==
    IF n = 0 THEN {<<>>}
    ELSE TaskLists(n - 1)
         \cup {Append(ts, t) : ts \in {l \in TaskLists(n - 1) : Len(l) = n - 1},
                               t \in Tasks \cup {T4}}

\* groupTasksByProject(tasks) is called and returns.
GroupTasksByProject ==
    /\ grouped.pc = "input"
    /\ grouped' = [grouped EXCEPT !.pc = "done",
                                  !.groups = groupTasksByProject(grouped.tasks)]
    /\ UNCHANGED <<taskCache, nextPageTokens, tree, received, fired>>
    /\ UNCHANGED <<calls, rateLimiter, timers, micro, token, cache, now, credVars, parsed>>

\* --------------------------------------------------------- parseResponse
\* JavaScript values as parseResponse reads them: js is what the value is
\* ("undefined", "null", a primitive with its text, "array", "object"); an
\* object has the properties data and paging (undefined when it has none) and
\* an id telling payloads apart.
JsUndefined == [js |-> "undefined"]
JsNull == [js |-> "null"]
JsPrimitive(type, text) == [js |-> type, text |-> text]
JsArray(items) == [js |-> "array", items |-> items]
JsObject(id, data, paging) == [js |-> "object", id |-> id, data |-> data, paging |-> paging]
\* paging: { total, after?, before? }
Paging(total, after, before) ==
    [js |-> "object", total |-> total, after |-> after, before |-> before]

\* Truthiness: undefined, null, 0, '' and false are falsy; arrays and objects
\* are truthy, also when empty.
Truthy(v) ==
    /\ v.js \notin {"undefined", "null"}
    /\ v.js \in {"number", "string", "boolean"} => v.text \notin {"0", "", "false"}

\* typeof v === 'object'
TypeofObject(v) == v.js \in {"null", "array", "object"}

\* v[name] for name in data, paging: undefined on a value without the property.
Prop(v, name) ==
    IF v.js = "object" /\ name \in DOMAIN v THEN v[name] ELSE JsUndefined

Returned(v) == [thrown |-> FALSE, value |-> v, error |-> OpenMetadataAPIError("", 0)]
Thrown(e) == [thrown |-> TRUE, value |-> JsUndefined, error |-> e]

\* parseResponse(response), lines 96-114: throws on a falsy or non-object
\* response; data is `response.data || response`; paging is copied field by
\* field `if (response.paging)`.
parseResponse(response) ==
    IF ~Truthy(response) \/ ~TypeofObject(response)
    THEN Thrown(OpenMetadataAPIError("InvalidApiResponse", 0))
    ELSE Returned(
           [js |-> "object",
            data |-> IF Truthy(Prop(response, "data"))
                     THEN Prop(response, "data") ELSE response,
            paging |-> IF Truthy(Prop(response, "paging"))
                       THEN Paging(Prop(response, "paging").total,
                                   Prop(response, "paging").after,
                                   Prop(response, "paging").before)
                       ELSE JsUndefined])

\* parseResponse has not been applied.
NotParsed == [pc |-> "idle", response |-> JsUndefined, result |-> Returned(JsUndefined),
              again |-> Returned(JsUndefined)]

\* The values a data property holds: lists (empty or not), an object, and the
\* falsy values.
DataValues ==
    {JsArray(<<>>), JsArray(<<"t1">>), JsObject("task", JsUndefined, JsUndefined),
     JsNull, JsPrimitive("number", "0"), JsPrimitive("number", "7"),
     JsPrimitive("string", ""), JsPrimitive("string", "x"),
     JsPrimitive("boolean", "false")}

\* The paging objects of a response; after and before are optional.
PagingValues ==
    {Paging(JsPrimitive("number", t), a, b) :
        t \in {"0", "5"},
        a \in {JsUndefined, JsPrimitive("string", "c1")},
        b \in {JsUndefined, JsPrimitive("string", "c0")}}

\* What request() may hand to parseResponse: envelopes, bare payloads, null
\* and values that are no objects.
Responses ==
    {JsObject("", d, p) : d \in DataValues, p \in PagingValues \cup {JsUndefined}}
    \cup {JsArray(<<>>), JsArray(<<"t1">>), JsObject("task", JsUndefined, JsUndefined),
          JsObject("promise", JsUndefined, JsUndefined)}
    \cup {JsNull, JsUndefined, JsPrimitive("string", "x"), JsPrimitive("string", ""),
          JsPrimitive("number", "7"), JsPrimitive("number", "0")}

\* parseResponse(response) is called and returns or throws; what it returned
\* is normalised once more.
ParseResponse ==
    /\ parsed.pc = "input"
    /\ LET result == parseResponse(parsed.response)
       IN parsed' = [parsed EXCEPT
                        !.pc = "done",
                        !.result = result,
                        !.again = IF result.thrown THEN result
                                  ELSE parseResponse(result.value)]
    /\ UNCHANGED <<calls, rateLimiter, timers, micro, token, cache, now, credVars,
                   treeVars>>

\* ---------------------------------------------------------- specifications
\* The state after `new OpenMetadataAPI(baseUrl, webAppUrl)`, with n slots.
InitWith(n) ==
    /\ calls = [c \in 1..n |-> Idle]
    /\ rateLimiter = [running |-> 0, queue |-> <<>>]
    /\ timers = [r \in 0..Interval |-> 0]
    /\ micro = <<>>
    /\ token = ""
    /\ cache = [k \in {} |-> k]
    /\ now = 0
    /\ secrets = ""
    /\ refresh = RefreshIdle
    /\ taskCache = NoBuckets
    /\ nextPageTokens = NoBuckets
    /\ tree = TreeIdle
    /\ received = <<>>
    /\ fired = 0
    /\ grouped = NotGrouped
    /\ parsed = NotParsed

TaskIds == {<<"t1">>}

\* The limiter alone: NCallers requests, each through request(); the limiter
\* never reads Date.now(), so its timers run without bounding the clock.
InitRL == InitWith(NCallers)

LimiterTick ==
    /\ TimersTick
    /\ UNCHANGED <<calls, rateLimiter, micro, token, cache, now>>
    /\ UNCHANGED <<credVars, treeVars, parsed>>

\* The limiter does not look at how a call ends: one success and one failure.
LimiterOutcomes ==
    {out \in Outcomes : out.data = <<"p1">> \/ out.error = AxiosError(401, TRUE)}

NextRL ==
    \/ \E c \in Slots, id \in TaskIds : UpdateTask(c, id)
    \/ RunMicrotask
    \/ Timeout
    \/ LimiterTick
    \/ \E c \in Slots, out \in LimiterOutcomes : Respond(c, out)

SpecRL == InitRL /\ [][NextRL]_vars

\* Timers fire, time passes and runnable continuations run.
LiveSpecRL ==
    SpecRL /\ WF_vars(RunMicrotask) /\ WF_vars(Timeout) /\ WF_vars(LimiterTick)

Tokens == {"jwt1", "jwt2"}
AssetIds == {<<"a1">>}
ReadArgs(op) ==
    CASE op = "getTaskDetails" -> {<<id>> : id \in TaskIds}
      [] op = "getAsset" -> {<<id>> : id \in AssetIds}
      [] op = "getAssetLineage" -> {<<id, <<"1">>, <<"1">> >> : id \in AssetIds}
      [] op = "searchAssets" ->
            {<< <<"q">>, <<"all", "_", "entity", "_", "search", "_", "index">>,
                <<"0">>, <<"10">> >>}
      [] op = "getDataQualityTestResults" ->
            {<< <<"tc1">>, <<"undefined">>, <<"undefined">> >>}

\* The client, one public call at a time (each call is awaited before the next,
\* as the test suite does), every operation, within one cache window: the
\* clock does not reach CACHE_TTL, the limiter's timers run.
InitApi == InitWith(1)

ApiOutcomes == {out \in Outcomes : out.data # <<"p2">>}

NextApi ==
    \/ \E c \in Slots, t \in Tokens : Authenticate(c, t)
    \/ \E c \in Slots, id \in TaskIds : UpdateTask(c, id)
    \/ \E c \in Slots, id \in TaskIds : GetTaskParentAsset(c, id)
    \/ \E c \in Slots, op \in PlainReads : \E arg \in ReadArgs(op) : CachedRead(c, op, arg)
    \/ \E c \in Slots : GetTasks(c, <<"20">>, <<>>)
    \/ \E c \in Slots : GetIngestionBotToken(c)
    \/ \E c \in Slots, id \in AssetIds : GetAssetDetails(c, id)
    \/ RunMicrotask
    \/ Timeout
    \/ LimiterTick
    \/ \E c \in Slots, out \in ApiOutcomes : Respond(c, out)
    \/ \E c \in Slots : Return(c)

SpecApi == InitApi /\ [][NextApi]_vars

\* The response cache over time: MaxCalls overlapping calls of one cached read,
\* the clock running past CACHE_TTL.
InitCache == InitWith(MaxCalls)

CacheOutcomes ==
    {out \in Outcomes : out.ok \/ out.error = AxiosError(401, TRUE)}

NextCache ==
    \/ \E c \in Slots, id \in TaskIds : CachedRead(c, "getTaskDetails", <<id>>)
    \/ RunMicrotask
    \/ Timeout
    \/ Tick
    \/ \E c \in Slots, out \in CacheOutcomes : Respond(c, out)
    \/ \E c \in Slots : Return(c)

SpecCache == InitCache /\ [][NextCache]_vars

\* The credential: the authenticate command, the refresh timer of the
\* TokenManager and calls that carry or test the token. One call at a time;
\* the limiter's timers run.
InitCred == InitWith(1)

CredOutcomes ==
    {out \in Outcomes :
        out.data = <<"p1">> \/ out.error \in {AxiosError(401, TRUE), AxiosError(0, TRUE)}}

NextCred ==
    \/ \E c \in Slots, t \in Tokens : Authenticate(c, t)
    \/ \E c \in Slots : AuthenticateCommand(c)
    \/ RefreshTokenStart
    \/ \E out \in RefreshOutcomes : RefreshTokenSettled(out)
    \/ \E c \in Slots, id \in TaskIds : UpdateTask(c, id)
    \/ \E c \in Slots : GetTasks(c, <<"20">>, <<>>)
    \/ RunMicrotask
    \/ Timeout
    \/ LimiterTick
    \/ \E c \in Slots, out \in CredOutcomes : Respond(c, out)
    \/ \E c \in Slots : ReturnCall(c)

SpecCred == InitCred /\ [][NextCred]_vars

\* The tree provider: getChildren calls, one at a time, and refresh().
InitTree == InitWith(1)

NextTree ==
    \/ \E element \in TreeElements : GetChildren(element)
    \/ \E response \in TreeResponses : GetTasksSettled(response)
    \/ TreeRefresh
    \/ TreeReturn

SpecTree == InitTree /\ [][NextTree]_vars

\* groupTasksByProject as a function of its argument.
InitGroup ==
    /\ calls = [c \in {1} |-> Idle]
    /\ rateLimiter = [running |-> 0, queue |-> <<>>]
    /\ timers = [r \in 0..Interval |-> 0]
    /\ micro = <<>>
    /\ token = ""
    /\ cache = [k \in {} |-> k]
    /\ now = 0
    /\ secrets = ""
    /\ refresh = RefreshIdle
    /\ taskCache = NoBuckets
    /\ nextPageTokens = NoBuckets
    /\ tree = TreeIdle
    /\ received = <<>>
    /\ fired = 0
    /\ grouped \in {[pc |-> "input", tasks |-> ts, groups |-> <<>>] :
                       ts \in TaskLists(MaxGroupLen)}
    /\ parsed = NotParsed

NextGroup == GroupTasksByProject

SpecGroup == InitGroup /\ [][NextGroup]_vars

\* Cache keys: reads of assets whose ids may contain "_", two at a time.
InitKeys == InitWith(MaxCalls)

KeyAssetIds == {<<"a1">>, <<"details", "_", "a1">>}

KeyOutcomes == {out \in Outcomes : out.data = <<"p1">> \/ out.error = AxiosError(404, TRUE)}

NextKeys ==
    \/ \E c \in Slots, id \in KeyAssetIds : CachedRead(c, "getAsset", <<id>>)
    \/ \E c \in Slots, id \in AssetIds : GetAssetDetails(c, id)
    \/ RunMicrotask
    \/ Timeout
    \/ LimiterTick
    \/ \E c \in Slots, out \in KeyOutcomes : Respond(c, out)
    \/ \E c \in Slots : Return(c)

SpecKeys == InitKeys /\ [][NextKeys]_vars

\* The tree's root request as the client sees it, api.getTasks(1), and
\* refresh(), over time.
InitRefresh == InitWith(1)

NextRefresh ==
    \/ \E c \in Slots : Authenticate(c, "jwt1")
    \/ \E c \in Slots : GetTasks(c, <<"1">>, <<>>)
    \/ TreeRefresh
    \/ RunMicrotask
    \/ Timeout
    \/ Tick
    \/ \E c \in Slots, out \in CacheOutcomes : Respond(c, out)
    \/ \E c \in Slots : Return(c)

SpecRefresh == InitRefresh /\ [][NextRefresh]_vars

\* One cached read under changing credentials: authenticate with either
\* token, and MaxCalls overlapping calls, all answered, within one cache
\* window (the clock does not reach CACHE_TTL, the limiter's timers run).
InitShared == InitWith(MaxCalls)

SharedOutcomes == {out \in Outcomes : out.ok}

NextShared ==
    \/ \E c \in Slots, t \in Tokens : Authenticate(c, t)
    \/ \E c \in Slots, id \in TaskIds : CachedRead(c, "getTaskDetails", <<id>>)
    \/ RunMicrotask
    \/ Timeout
    \/ LimiterTick
    \/ \E c \in Slots, out \in SharedOutcomes : Respond(c, out)
    \/ \E c \in Slots : Return(c)

SpecShared == InitShared /\ [][NextShared]_vars

\* parseResponse as a function of its argument.
InitParse ==
    /\ calls = [c \in {1} |-> Idle]
    /\ rateLimiter = [running |-> 0, queue |-> <<>>]
    /\ timers = [r \in 0..Interval |-> 0]
    /\ micro = <<>>
    /\ token = ""
    /\ cache = [k \in {} |-> k]
    /\ now = 0
    /\ secrets = ""
    /\ refresh = RefreshIdle
    /\ taskCache = NoBuckets
    /\ nextPageTokens = NoBuckets
    /\ tree = TreeIdle
    /\ received = <<>>
    /\ fired = 0
    /\ grouped = NotGrouped
    /\ parsed \in {[NotParsed EXCEPT !.pc = "input", !.response = r] : r \in Responses}

NextParse == ParseResponse

SpecParse == InitParse /\ [][NextParse]_vars

\* =================================================================== claims
\* Calls whose axios call is in flight.
InFlight == {c \in Slots : calls[c].pc = "net"}

\* The callers waiting for a permit, oldest first: those release() has woken
\* and that have not resumed yet, then those still queued.
WaitLineOf(m, cs, l) == SelectSeq(m, LAMBDA c : cs[c].pc = "wait_r") \o l.queue
WaitLine == WaitLineOf(micro, calls, rateLimiter)

\* C1: the number of permits granted and not yet released (the running count,
\* and the release timers still pending) never exceeds maxConcurrent.
C1_PermitsBounded ==
    /\ rateLimiter.running <= MaxConcurrent
    /\ TimerCount <= MaxConcurrent
\* A release has woken a queued waiter that has not resumed yet, one permit is
\* free, and a caller that could arrive exists.
C1_Witness ==
    /\ \E c \in Slots : calls[c].pc = "wait_r"
    /\ rateLimiter.running = MaxConcurrent - 1
    /\ \E d \in Slots : calls[d].pc = "idle"

\* C2: queued callers are granted permits in the order they were queued: the
\* line of waiting callers only loses its head (which then takes its permit)
\* or gains a new caller at its tail, and no waiting caller other than the
\* head is granted a permit.
C2_Fifo ==
    [][ /\ \/ WaitLineOf(micro', calls', rateLimiter') = WaitLine
           \/ /\ WaitLine # <<>>
              /\ WaitLineOf(micro', calls', rateLimiter') = Tail(WaitLine)
              /\ calls'[Head(WaitLine)].permits = calls[Head(WaitLine)].permits + 1
           \/ \E c \in Slots :
                 /\ calls[c].pc = "idle"
                 /\ WaitLineOf(micro', calls', rateLimiter') = Append(WaitLine, c)
        /\ \A i \in 2..Len(WaitLine) :
              calls'[WaitLine[i]].permits = calls[WaitLine[i]].permits
      ]_vars
\* An earlier queued caller has been woken while a later one is still queued.
C2_Witness ==
    /\ \E c \in Slots : calls[c].pc = "wait_r"
    /\ Len(rateLimiter.queue) >= 1

\* C3: every caller that waits for a permit eventually gets one (wait()
\* returns); wait() has no failing outcome.
C3_EveryWaitReturns ==
    \A c \in 1..NCallers :
        (calls[c].pc \in {"wait_q", "wait_r"}) ~> (calls[c].permits = 1)
\* More callers than maxConcurrent have all been granted a permit.
C3_Witness ==
    /\ Cardinality(Slots) > MaxConcurrent
    /\ \A c \in Slots : calls[c].permits = 1

CachedOps == PlainReads \cup {"getTasks", "getIngestionBotToken", "getAssetDetails"}

\* Slot c starts a call in this step.
Starts(c) == calls[c].pc = "idle" /\ calls'[c].pc # "idle"
\* The network call of slot c completes in this step.
Completes(c) == calls[c].pc = "net" /\ calls'[c].pc = "end"

\* C5: a cached read whose key has an entry younger than CACHE_TTL returns the
\* stored value without invoking its producer and leaves the cache alone;
\* otherwise (no entry, or age >= CACHE_TTL) the producer is invoked, once,
\* and when it succeeds its result is stored under the key with the current
\* timestamp and returned.
C5_GetOrFetch ==
    [][ \A c \in Slots :
          LET k == CacheKey(calls'[c].op, calls'[c].arg)
          IN /\ (Starts(c) /\ calls'[c].op \in PlainReads)
                => IF k \in DOMAIN cache /\ now - cache[k].timestamp < CACHE_TTL
                   THEN /\ calls'[c].res = Fulfilled(cache[k].data)
                        /\ calls'[c].pc = "end"
                        /\ calls'[c].sent = 0
                        /\ cache' = cache
                   ELSE /\ calls'[c].res = Pending
                        /\ calls'[c].pc \in {"wait_q", "wait_done"}
             /\ (Completes(c) /\ calls'[c].op \in PlainReads)
                => /\ calls'[c].sent = 1
                   /\ calls'[c].http.state = "fulfilled"
                      => /\ k \in DOMAIN cache'
                         /\ cache'[k] = [data |-> calls'[c].http.value,
                                         timestamp |-> now]
                         /\ calls'[c].res = Fulfilled(calls'[c].http.value)
      ]_vars
\* A first call was answered from the cache, and a later call for the same key,
\* made once the entry was CACHE_TTL old, has invoked the producer again.
C5_Witness ==
    /\ Cardinality(Slots) >= 2
    /\ calls[1].pc = "end" /\ calls[1].sent = 0 /\ calls[1].res.state = "fulfilled"
    /\ calls[2].pc = "net" /\ calls[2].arg = calls[1].arg
    /\ LET k == CacheKey(calls[2].op, calls[2].arg)
       IN k \in DOMAIN cache /\ now - cache[k].timestamp >= CACHE_TTL

\* C6: a read answered from the response cache takes no permit, starts no
\* wait in the limiter and makes no network call: the limiter and its timers
\* are as before the call.
C6_HitCostsNoPermit ==
    [][ \A c \in Slots :
          LET k == CacheKey(calls'[c].op, calls'[c].arg)
          IN (/\ Starts(c)
              /\ calls'[c].op \in CachedOps
              /\ k \in DOMAIN cache
              /\ now - cache[k].timestamp < CACHE_TTL)
             => /\ rateLimiter' = rateLimiter
                /\ timers' = timers
                /\ micro' = micro
                /\ calls'[c].permits = 0
                /\ calls'[c].sent = 0
                /\ calls'[c].pc = "end"
                /\ calls'[c].res = Fulfilled(cache[k].data)
      ]_vars
\* A read has ended on a cache hit while permits of earlier calls are out.
C6_Witness ==
    \E c \in Slots :
        /\ calls[c].op \in PlainReads \cup {"getTasks"}
        /\ calls[c].pc = "end"
        /\ calls[c].res.state = "fulfilled"
        /\ calls[c].permits = 0 /\ calls[c].sent = 0
        /\ rateLimiter.running > 0

\* C7 as stated: every network call of every operation, authenticate's probe
\* included, was preceded by a permit taken for that call.
C7_Original == \A c \in Slots : calls[c].sent <= calls[c].permits
\* C7 amended: every network call of an operation other than authenticate is
\* preceded by a permit taken for that call; authenticate's probe is sent
\* directly and takes none.
C7_RequestsTakePermit ==
    \A c \in Slots :
        /\ calls[c].op # "authenticate" => calls[c].sent <= calls[c].permits
        /\ calls[c].op = "authenticate" => calls[c].permits = 0 /\ calls[c].sent = 1
\* A cache-miss fetch that had to queue in the limiter has sent its request.
C7_Witness ==
    \E c \in Slots :
        /\ calls[c].op \in PlainReads
        /\ calls[c].pc = "net"
        /\ calls[c].permits = 1 /\ calls[c].sent = 1
        /\ rateLimiter.running = MaxConcurrent

\* C8: getTasks and getIngestionBotToken, called while no credential is held,
\* reject with the not-authenticated error, take no permit, queue nothing in
\* the limiter and make no network call.
C8_NotAuthenticatedFastPath ==
    [][ \A c \in Slots :
          (/\ Starts(c)
           /\ calls'[c].op \in {"getTasks", "getIngestionBotToken"}
           /\ token = "")
          => /\ calls'[c].pc = "end"
             /\ calls'[c].res.state = "rejected"
             /\ calls'[c].res.reason.message = "NotAuthenticated"
             /\ calls'[c].permits = 0
             /\ calls'[c].sent = 0
             /\ rateLimiter' = rateLimiter
             /\ timers' = timers
             /\ cache' = cache
      ]_vars
\* getTasks has been rejected as not authenticated on a fresh client.
C8_Witness ==
    \E c \in Slots :
        /\ calls[c].op = "getTasks"
        /\ calls[c].pc = "end"
        /\ calls[c].res = Rejected(OpenMetadataAPIError("NotAuthenticated", 0))
        /\ token = ""
        /\ rateLimiter.running = 0

\* C9 as stated: every operation other than authenticate, called while no
\* credential is held, ends rejected as not authenticated with no permit
\* taken and no network call.
C9_Original ==
    \A c \in Slots :
        (calls[c].op \notin {"none", "authenticate"} /\ token = "")
        => /\ calls[c].pc = "end"
           /\ calls[c].res.state = "rejected"
           /\ calls[c].res.reason.message = "NotAuthenticated"
           /\ calls[c].permits = 0 /\ calls[c].sent = 0
\* C9 amended: only getTasks and getIngestionBotToken test the credential. A
\* call rejected as not authenticated is one of these two, made without a
\* credential, and has taken no permit and made no network call; no other
\* operation is ever rejected as not authenticated: called without a
\* credential it goes on like any call (cache, then limiter, then request).
C9_OnlyTwoOperationsCheck ==
    \A c \in Slots :
        /\ (calls[c].res.state = "rejected"
            /\ calls[c].res.reason.message = "NotAuthenticated")
           => /\ calls[c].op \in {"getTasks", "getIngestionBotToken"}
              /\ calls[c].pc = "end"
              /\ calls[c].permits = 0 /\ calls[c].sent = 0
        /\ (calls[c].op \in {"getTasks", "getIngestionBotToken"}
            /\ calls[c].permits + calls[c].sent > 0)
           => token # ""
\* updateTask, called without a credential, has sent a request with an empty
\* bearer token.
C9_Witness ==
    \E c \in Slots :
        /\ calls[c].op = "updateTask"
        /\ token = ""
        /\ calls[c].sent = 1 /\ calls[c].permits = 1
        /\ calls[c].bearer = ""

\* The spec's error taxonomy, read off an OpenMetadataAPIError.
ErrorClass(e) ==
    IF e.message = "NotAuthenticated" THEN "NotAuthenticatedError"
    ELSE IF e.statusCode >= 400 /\ e.statusCode <= 499 THEN "AuthOrNotFoundError"
    ELSE IF e.message = "NoResponseReceived" THEN "TransportError"
    ELSE "ApiError"

\* C10 as stated: whatever the operation, a call whose network call was
\* answered 401 rejects with an AuthOrNotFoundError carrying status 401, and
\* a call whose connection dropped (no response) rejects with a TransportError.
C10_ClassificationPreserved ==
    \A c \in Slots :
        (calls[c].pc = "end" /\ calls[c].http.state = "rejected")
        => /\ calls[c].http.reason.response = 401
              => /\ calls[c].res.state = "rejected"
                 /\ ErrorClass(calls[c].res.reason) = "AuthOrNotFoundError"
                 /\ calls[c].res.reason.statusCode = 401
           /\ (calls[c].http.reason.response = 0 /\ calls[c].http.reason.request)
              => /\ calls[c].res.state = "rejected"
                 /\ ErrorClass(calls[c].res.reason) = "TransportError"

\* The class the taxonomy gives to what axios threw.
AxiosErrorClass(e) ==
    IF e.response >= 400 /\ e.response <= 499 THEN "AuthOrNotFoundError"
    ELSE IF e.response = 0 /\ e.request THEN "TransportError"
    ELSE "ApiError"

\* C11: authenticate(token) makes one probe call. When the probe succeeds the
\* client holds that token and the call returns true, and the command then
\* stores the token in the secret storage; when the probe fails the call
\* rejects with the error classified from what the probe threw, no second
\* probe is made, the client's token is what it was (none stays none) and
\* nothing is stored.
C11_Authenticate ==
    [][ \A c \in Slots :
          /\ (Completes(c) /\ calls[c].op = "authenticate")
             => /\ calls'[c].sent = 1
                /\ IF calls'[c].http.state = "fulfilled"
                   THEN /\ token' = calls[c].arg[1]
                        /\ calls'[c].res = Fulfilled(<<"true">>)
                   ELSE /\ token' = token
                        /\ calls'[c].res.state = "rejected"
                        /\ ErrorClass(calls'[c].res.reason)
                              = AxiosErrorClass(calls'[c].http.reason)
                        /\ calls'[c].res.reason.statusCode
                              = calls'[c].http.reason.response
          /\ (calls[c].op = "authenticate" /\ calls[c].pc = "end"
                /\ calls'[c].pc = "idle")
             => /\ calls[c].sent = 1
                /\ token' = token
                /\ IF calls[c].res.state = "fulfilled"
                   THEN /\ token = calls[c].arg[1]
                        /\ secrets' # "" /\ decryptToken(secrets') = calls[c].arg[1]
                   ELSE secrets' = secrets
      ]_vars
\* A first token was accepted and stored; a later authenticate with another
\* token has been rejected after one probe and the client still holds the first.
C11_Witness ==
    \E c \in Slots :
        /\ calls[c].op = "authenticate" /\ calls[c].pc = "end"
        /\ calls[c].res.state = "rejected" /\ calls[c].sent = 1
        /\ token # "" /\ token # calls[c].arg[1]
        /\ getToken = token

\* C12: when a background refresh ends, the stored token is set by how it
\* ended: a new token replaces it, an expiry signal erases it, and a thrown
\* (transient) failure leaves getToken() as it was.
C12_RefreshOutcome ==
    [][ (refresh.pc = "calling" /\ refresh'.pc = "idle")
        => /\ refresh'.out.kind = "token"
              => secrets' # "" /\ decryptToken(secrets') = refresh'.out.token
           /\ refresh'.out.kind = "expired" => secrets' = ""
           /\ refresh'.out.kind = "error"
              => /\ secrets' = secrets
                 /\ secrets' # ""
      ]_vars
\* A refresh has failed transiently and the token it was started with is
\* still the stored one.
C12_Witness ==
    /\ refresh.pc = "idle" /\ refresh.out.kind = "error"
    /\ getToken # "" /\ getToken = refresh.token

\* C13 as stated: a request is sent with the token the TokenManager holds at
\* that moment, and getTasks called while the TokenManager holds none is
\* rejected as not authenticated.
C13_LatestCredential ==
    [][ \A c \in Slots :
          /\ (calls'[c].sent > calls[c].sent /\ calls'[c].op # "authenticate")
             => calls'[c].bearer = getToken
          /\ (Starts(c) /\ calls'[c].op = "getTasks" /\ getToken = "")
             => /\ calls'[c].res.state = "rejected"
                /\ calls'[c].res.reason.message = "NotAuthenticated"
      ]_vars

\* C14: updateTask neither reads nor writes the response cache: it goes to
\* request() even when the task's cache entry is fresh, every completed call
\* has made its network call, and no step of an updateTask call changes the
\* cache.
C14_UpdateTaskNeverCached ==
    [][ \A c \in Slots :
          /\ (Starts(c) /\ calls'[c].op = "updateTask")
             => /\ calls'[c].pc \in {"wait_q", "wait_done"}
                /\ calls'[c].res = Pending
          /\ (calls'[c].op = "updateTask" /\ calls'[c].pc = "end")
             => calls'[c].sent = 1
          /\ (calls'[c].op = "updateTask" /\ calls'[c] # calls[c])
             => cache' = cache
      ]_vars
\* updateTask of a task whose details are fresh in the cache has made its
\* network call and succeeded, and the cache holds the details only.
C14_Witness ==
    \E c \in Slots :
        /\ calls[c].op = "updateTask" /\ calls[c].pc = "end"
        /\ calls[c].res.state = "fulfilled" /\ calls[c].sent = 1
        /\ CacheHit(CacheKey("getTaskDetails", calls[c].arg))
        /\ DOMAIN cache = {CacheKey("getTaskDetails", calls[c].arg)}

\* The tasks paged in since the last refresh(), in the order received.
RECURSIVE Flatten(_)
Flatten(pages) == IF pages = <<>> THEN <<>> ELSE Head(pages) \o Flatten(Tail(pages))
Accumulated == Flatten(received)

\* The items end with the 'Load More...' node.
LoadMoreLast(items) ==
    items # <<>> /\ items[Len(items)].contextValue = "loadMore"

C16_PaginationExhaustion ==
    /\ (tree.pc = "done" /\ tree.result # <<>>)
       => (LoadMoreLast(tree.result) <=> "root" \in DOMAIN nextPageTokens)
    /\ (tree.pc = "done" /\ tree.element = Undefined /\ tree.resp.ok
          /\ Len(received) = 1 /\ tree.resp.paging.after # "")
       => /\ Bucket("root") = received[1]
          /\ LoadMoreLast(tree.result)
    /\ (tree.pc = "done" /\ tree.element.contextValue = "loadMore"
          /\ Len(received) = 2 /\ tree.resp.ok /\ tree.resp.paging.after = "")
       => /\ Bucket("root") = received[1] \o received[2]
          /\ ~LoadMoreLast(tree.result)

\* C17 as stated: after a successful root request the root bucket holds the
\* first page and its cursor, and a root request made while the bucket is
\* populated fetches nothing: one page has been received since refresh().
C17_RootFetchedOnce ==
    (tree.pc = "done" /\ tree.element = Undefined /\ tree.resp.ok)
    => /\ Len(received) = 1
       /\ Bucket("root") = received[1]
       /\ tree.fetches = 1
          => /\ Bucket("root") = tree.resp.data
             /\ tree.resp.paging.after # ""
                => /\ "root" \in DOMAIN nextPageTokens
                   /\ nextPageTokens["root"] = tree.resp.paging.after

\* The project keys of tasks with a task in the status, each with its count.
ProjectCounts(tasks, status) ==
    {[project |-> ProjectKey(tasks[i]),
      count |-> Len(ProjectTasks(tasks, ProjectKey(tasks[i]), status))] :
        i \in {j \in 1..Len(tasks) : tasks[j].status = status}}

\* C18 as stated: expanding 'Open Tasks' (resp. 'Completed Tasks') returns
\* exactly one project node per project key having an accumulated task with
\* status Open (resp. Closed), carrying the number of such tasks.
C18_CategoryListsProjects ==
    (tree.pc = "done" /\ tree.element.contextValue = "category"
       /\ tree.element.taskId \in {"open-tasks", "completed-tasks"})
    => LET status == IF tree.element.taskId = "open-tasks" THEN "Open" ELSE "Closed"
           expected == ProjectCounts(Accumulated, status)
       IN /\ Len(tree.result) = Cardinality(expected)
          /\ {[project |-> tree.result[i].taskId,
               count |-> tree.result[i].description[1]] :
                 i \in 1..Len(tree.result)} = expected

C20_RootCategories ==
    (tree.pc = "done" /\ tree.element = Undefined /\ tree.resp.ok)
    => /\ Len(tree.result) = 3
       /\ tree.result[1].label = "All Tasks"
       /\ tree.result[2].label = "Open Tasks"
       /\ tree.result[3].label = "Completed Tasks"
       /\ \A i \in 1..3 : tree.result[i].contextValue = "category"
       /\ tree.result[1].description =
             <<IF tree.resp.paging.present THEN tree.resp.paging.total ELSE 0,
               "tasks">>
\* A root request was answered by a page of one task reporting a larger total,
\* after an earlier page had been received.
C20_Witness ==
    /\ tree.pc = "done" /\ tree.element = Undefined /\ tree.resp.ok
    /\ tree.resp.paging.total = MaxTotal
    /\ Len(tree.resp.data) = 1
    /\ Len(received) = 2 /\ Len(Accumulated) = 3

C22_FailureDegradesToEmpty ==
    /\ tree.settled # "rejected"
    /\ tree.pc = "done" => tree.settled = "fulfilled"
    /\ (tree.pc = "done" /\ tree.fetches = 1 /\ ~tree.resp.ok)
       => /\ tree.result = <<>>
          /\ tree.logged
    /\ tree.logged => (tree.fetches = 1 /\ ~tree.resp.ok)
\* A root request whose getTasks call failed has resolved to no items.
C22_Witness ==
    /\ tree.pc = "done" /\ tree.element = Undefined
    /\ tree.fetches = 1 /\ ~tree.resp.ok
    /\ tree.settled = "fulfilled" /\ tree.result = <<>> /\ tree.logged

\* C24 as stated: no operation resolves after a network call it issued
\* failed: a call whose axios call was rejected ends rejected.
C24_NoSwallowedError ==
    \A c \in Slots :
        (calls[c].pc = "end" /\ calls[c].http.state = "rejected")
        => calls[c].res.state = "rejected"

\* The index at which the project key k is first seen in tasks.
FirstSeen(tasks, k) ==
    CHOOSE i \in 1..Len(tasks) :
        /\ ProjectKey(tasks[i]) = k
        /\ \A j \in 1..(i - 1) : ProjectKey(tasks[j]) # k

\* C25: groupTasksByProject returns one group per project key of the tasks,
\* the groups in the order their keys are first seen, and each group holding
\* the tasks of its project in the order given (repeated tasks kept, nothing
\* sorted).
C25_GroupingOrder ==
    grouped.pc = "done"
    => LET g == grouped.groups
           ts == grouped.tasks
       IN /\ {g[i].name : i \in 1..Len(g)} = {ProjectKey(ts[j]) : j \in 1..Len(ts)}
          /\ \A i, j \in 1..Len(g) :
                i < j => FirstSeen(ts, g[i].name) < FirstSeen(ts, g[j].name)
          /\ \A i \in 1..Len(g) :
                g[i].tasks = SelectSeq(ts, LAMBDA t : ProjectKey(t) = g[i].name)
\* Project "p1" was seen before project "a1", between them a task of another
\* project, and a task of "p1" came twice.
C25_Witness ==
    /\ grouped.pc = "done"
    /\ Len(grouped.groups) = 2
    /\ grouped.groups[1].name = "p1" /\ grouped.groups[2].name = "a1"
    /\ grouped.groups[1].tasks = <<T1, T1>>
    /\ grouped.tasks = <<T1, T4, T1>>

\* C27 as stated: a refresh shows a message about a failure only when it
\* ended on the expired branch; one that failed transiently shows nothing.
C27_Original ==
    /\ refresh.message \in {"warning", "error"} => refresh.out.kind = "expired"
    /\ refresh.out.kind = "error" => refresh.message = "none"
\* C27 amended: the warning asking to authenticate again is shown exactly on
\* the expired branch; a refresh that failed transiently shows an error
\* message (and nothing else), a successful one an information message, and a
\* run that found no stored token shows nothing.
C27_RefreshMessages ==
    /\ refresh.message = "warning" <=> (refresh.pc = "idle" /\ refresh.out.kind = "expired")
    /\ refresh.message = "error" <=> (refresh.pc = "idle" /\ refresh.out.kind = "error")
    /\ refresh.message = "information"
          <=> (refresh.pc = "idle" /\ refresh.out.kind = "token")
    /\ refresh.out.kind \in {"none", "skipped"} => refresh.message = "none"
\* A refresh has failed transiently: the error message was shown and the
\* token is still stored.
C27_Witness ==
    /\ refresh.pc = "idle" /\ refresh.out.kind = "error"
    /\ refresh.message = "error"
    /\ getToken # ""

\* C28: a refresh run that finds no stored token ends at once: it does not
\* call api.refreshToken, shows nothing and stores nothing; no step of the
\* refresh turns an absent stored token into a present one.
C28_NoTokenNoRefresh ==
    [][ /\ (refresh.pc = "idle" /\ refresh' # refresh /\ getToken = "")
           => /\ refresh'.pc = "idle"
              /\ refresh'.out.kind = "skipped"
              /\ refresh'.message = "none"
              /\ secrets' = ""
              /\ token' = token
        /\ (refresh' # refresh /\ secrets = "") => secrets' = ""
      ]_vars
\* The refresh timer has fired on a client without a stored token.
C28_Witness ==
    /\ refresh.pc = "idle" /\ refresh.out.kind = "skipped"
    /\ refresh.message = "none"
    /\ getToken = "" /\ token = ""

\* C30: cachedRequest does not look at fetches under way: a call that finds
\* no fresh entry for its key starts its own request also when another call
\* for the same key has not completed, and each such call makes its own
\* network call.
C30_NoSingleFlight ==
    [][ \A c, d \in Slots :
          (/\ c # d
           /\ Starts(c)
           /\ calls'[c].op \in PlainReads
           /\ calls[d].op = calls'[c].op /\ calls[d].arg = calls'[c].arg
           /\ calls[d].pc \notin {"idle", "end"}
           /\ ~CacheHit(CacheKey(calls'[c].op, calls'[c].arg)))
          => /\ calls'[c].pc \in {"wait_q", "wait_done"}
             /\ calls'[c].res = Pending
             /\ calls'[d] = calls[d]
      ]_vars
\* Two calls for the same key are in flight, each with its own network call.
C30_Witness ==
    \E c, d \in Slots :
        /\ c # d
        /\ calls[c].op \in PlainReads
        /\ calls[c].op = calls[d].op /\ calls[c].arg = calls[d].arg
        /\ calls[c].pc = "net" /\ calls[d].pc = "net"
        /\ calls[c].sent = 1 /\ calls[d].sent = 1

\* C32: in every state the tree provider reaches through getChildren and
\* refresh(), no cursor and no bucket is stored, whatever pages the root
\* requests received and whatever node was expanded or activated.
C32_MapsStayEmpty ==
    /\ nextPageTokens = NoBuckets
    /\ taskCache = NoBuckets
    /\ (tree.pc = "fetch") => tree.element = Undefined
\* A root request has received a page with a cursor, and a 'load more'
\* activation made afterwards has ended without a fetch.
C32_Witness ==
    /\ received # <<>>
    /\ tree.pc = "done" /\ tree.element # Undefined
    /\ tree.element.contextValue = "loadMore"
    /\ tree.fetches = 0 /\ tree.result = <<>>
    /\ taskCache = NoBuckets /\ nextPageTokens = NoBuckets

\* C33: whenever a caller is queued in the limiter, a release timer of a
\* granted permit is pending or a waiter woken by a release has not resumed.
C33_NoStrandedWaiter ==
    rateLimiter.queue # <<>>
    => \/ TimerCount > 0
       \/ \E c \in Slots : calls[c].pc = "wait_r"
\* A release has just woken the oldest waiter, which has not resumed, while
\* another caller is still queued behind it.
C33_Witness ==
    /\ Len(rateLimiter.queue) >= 1
    /\ micro # <<>> /\ calls[Head(micro)].pc = "wait_r"
    /\ rateLimiter.running = MaxConcurrent - 1
    /\ TimerCount = MaxConcurrent - 1

\* Slot c's call is rejected in this step.
Fails(c) == calls[c].res.state # "rejected" /\ calls'[c].res.state = "rejected"

\* C35: a step in which a cached read fails (its producer throws, as when
\* not authenticated, or its request rejects) leaves the cache as it was, so
\* its key has no entry it did not have and the next call for the key misses
\* again.
C35_FailureLeavesCache ==
    [][ \A c \in Slots :
          (Fails(c) /\ calls'[c].op \in CachedOps)
          => /\ cache' = cache
             /\ ~CacheHit(CacheKey(calls'[c].op, calls'[c].arg))
      ]_vars
\* getTaskDetails has been rejected after its request failed and its key has
\* no entry.
C35_Witness ==
    \E c \in Slots :
        /\ calls[c].op = "getTaskDetails" /\ calls[c].pc = "end"
        /\ calls[c].sent = 1
        /\ calls[c].http.state = "rejected" /\ calls[c].res.state = "rejected"
        /\ CacheKey(calls[c].op, calls[c].arg) \notin DOMAIN cache

\* C36 as stated: when the stored token was replaced or erased while
\* api.refreshToken was outstanding, the end of that refresh leaves the stored
\* token alone.
C36_LateRefreshKeepsCredential ==
    [][ (/\ refresh.pc = "calling" /\ refresh'.pc = "idle"
         /\ getToken # refresh.token)
        => secrets' = secrets
      ]_vars

\* C38: the client's token is never cleared: once set it stays set, a failed
\* authenticate leaves it as it was, and so does every answer to a request,
\* a 401 included.
C38_TokenNeverCleared ==
    [][ /\ token # "" => token' # ""
        /\ \A c \in Slots :
              (Completes(c) /\ calls'[c].http.state = "rejected")
              => token' = token
      ]_vars
\* A client holding a token has had an authenticate with another token
\* answered 401.
C38_Witness ==
    \E c \in Slots :
        /\ calls[c].op = "authenticate" /\ calls[c].pc = "end"
        /\ calls[c].http.state = "rejected"
        /\ calls[c].http.reason.response = 401
        /\ token # "" /\ token # calls[c].arg[1]
        /\ isAuthenticated

\* C34 as stated: two cached reads that differ in operation or in an argument
\* have different cache keys, and so a read is answered with a value of its
\* own: getAsset with an entity the server returned, getAssetDetails with the
\* details it builds.
C34_KeysInjective ==
    /\ \A c, d \in Slots :
          (/\ calls[c].op \in CachedOps /\ calls[d].op \in CachedOps
           /\ <<calls[c].op, calls[c].arg>> # <<calls[d].op, calls[d].arg>>)
          => CacheKey(calls[c].op, calls[c].arg) # CacheKey(calls[d].op, calls[d].arg)
    /\ \A c \in Slots :
          (calls[c].pc = "end" /\ calls[c].res.state = "fulfilled")
          => /\ calls[c].op = "getAsset" => calls[c].res.value \in Payloads
             /\ calls[c].op = "getAssetDetails" => calls[c].res.value = DetailsOfPromise

C40_CacheSharedAcrossTokens ==
    [][ \A c \in Slots :
          /\ (Completes(c) /\ calls[c].op = "authenticate") => cache' = cache
          /\ (Starts(c) /\ calls'[c].op \in PlainReads)
             => LET k == CacheKey(calls'[c].op, calls'[c].arg)
                IN \A t \in Tokens \cup {""} :
                      (token = t /\ k \in DOMAIN cache
                         /\ now - cache[k].timestamp < CACHE_TTL)
                      => /\ calls'[c].res = Fulfilled(cache[k].data)
                         /\ calls'[c].sent = 0
      ]_vars
\* A value fetched with one token has been returned, from the cache, to the
\* same read made after authenticate succeeded with another token.
C40_Witness ==
    \E c, d \in Slots :
        /\ c # d
        /\ calls[c].op = "getTaskDetails" /\ calls[d].op = "getTaskDetails"
        /\ calls[c].arg = calls[d].arg
        /\ calls[c].pc = "end" /\ calls[c].sent = 1 /\ calls[c].res.state = "fulfilled"
        /\ calls[d].pc = "end" /\ calls[d].sent = 0 /\ calls[d].res = calls[c].res
        /\ calls[c].bearer # "" /\ token # "" /\ token # calls[c].bearer

\* An envelope: an object with a data property.
IsEnvelope(v) == v.js = "object" /\ Prop(v, "data") # JsUndefined

====
